---- MODULE Spec2Model ----
(***************************************************************************)
(* A model of the bookstore API: the five axum handlers of src/src/api.rs, *)
(* the repository contract of src/src/repo.rs and its two implementers,    *)
(* DatabaseBookRepo (src/src/database.rs) and the in-memory MockBookRepo   *)
(* of the handler unit tests (src/src/api.rs, mod tests).                   *)
(*                                                                         *)
(* Text (path segments, response bodies) is a sequence of chunks; a path   *)
(* segment is a sequence of one-character strings, so that parsing and     *)
(* formatting an id are computed character by character.                   *)
(***************************************************************************)
EXTENDS Integers, Sequences, FiniteSets, TLC

\* ------------------------------------------------------------------ bounds

\* Requests handled in one behaviour.
MaxRequests == 3

\* Rows the store may hold; insert is not offered beyond it.
MaxRows == 101

\* Requests in flight at the same time.
MaxTasks == 2

\* ------------------------------------------------------- program constants

\* .limit(100) of DatabaseBookRepo::list_books.
PageLimit == 100

\* Connections the pool opens at most: Pool::builder() keeps bb8's max_size.
PoolSize == 10

\* i32::MAX and i32::MIN: ids are i32.
I32Max == 2147483647

I32Min == (0 - I32Max) - 1

\* StatusCode values used by the handlers and by axum's Json extractor.
OK == 200

NO_CONTENT == 204

BAD_REQUEST == 400

NOT_FOUND == 404

UNSUPPORTED_MEDIA_TYPE == 415

UNPROCESSABLE_ENTITY == 422

INTERNAL_SERVER_ERROR == 500

\* ------------------------------------------------------------------ values

\* Result<T, E> and Option<T>.
Ok(v) == [tag |-> "Ok", val |-> v]

Err(e) == [tag |-> "Err", err |-> e]

Some(v) == [some |-> TRUE, val |-> v]

None == [some |-> FALSE]

\* -------------------------------------------------------------------- text

DigitChars == {"0", "1", "2", "3", "4", "5", "6", "7", "8", "9"}

DigitVal(c) ==
    CASE c = "0" -> 0 [] c = "1" -> 1 [] c = "2" -> 2 [] c = "3" -> 3
      [] c = "4" -> 4 [] c = "5" -> 5 [] c = "6" -> 6 [] c = "7" -> 7
      [] c = "8" -> 8 [] c = "9" -> 9

DigitChar(d) ==
    CASE d = 0 -> "0" [] d = 1 -> "1" [] d = 2 -> "2" [] d = 3 -> "3"
      [] d = 4 -> "4" [] d = 5 -> "5" [] d = 6 -> "6" [] d = 7 -> "7"
      [] d = 8 -> "8" [] d = 9 -> "9"

\* i32::checked_mul(10), checked_add and checked_sub of a digit: None on
\* overflow.
CheckedMul10(a) ==
    IF a > I32Max \div 10 \/ a < 0 - (I32Max \div 10) THEN None ELSE Some(a * 10)

CheckedAdd(a, d) == IF a > I32Max - d THEN None ELSE Some(a + d)

CheckedSub(a, d) == IF a < I32Min + d THEN None ELSE Some(a - d)

\* The digit loop of from_str_radix: the digits are accumulated from the most
\* significant one, added for a positive number and subtracted for a negative
\* one, and the parse fails at the first overflow.
RECURSIVE Accumulate(_, _, _)
Accumulate(digits, acc, positive) ==
    IF digits = <<>> THEN Some(acc)
    ELSE LET mul == CheckedMul10(acc)
             d == DigitVal(Head(digits))
             sum == IF ~mul.some THEN None
                    ELSE IF positive THEN CheckedAdd(mul.val, d)
                    ELSE CheckedSub(mul.val, d)
         IN  IF sum.some THEN Accumulate(Tail(digits), sum.val, positive) ELSE None

\* str::parse::<i32>: an optional sign, then one or more decimal digits, the
\* value within i32; anything else is an error.
ParseI32(s) ==
    LET signed == Len(s) > 0 /\ s[1] \in {"+", "-"}
        digits == IF signed THEN Tail(s) ELSE s
        wellFormed == Len(digits) > 0 /\ \A i \in 1..Len(digits) : digits[i] \in DigitChars
        value == IF wellFormed THEN Accumulate(digits, 0, ~(signed /\ s[1] = "-")) ELSE None
    IN  IF value.some THEN [ok |-> TRUE, val |-> value.val] ELSE [ok |-> FALSE]

\* The decimal digits of n <= 0 taken as a magnitude, without leading zeros.
RECURSIVE NegDigits(_)
NegDigits(n) ==
    LET d == (10 - (n % 10)) % 10
    IN  IF n > -10 THEN <<DigitChar(d)>>
        ELSE NegDigits((n + d) \div 10) \o <<DigitChar(d)>>

\* Display for i32, as format!("{}", id) prints it.
FormatI32(n) ==
    IF n < 0 THEN <<"-">> \o NegDigits(n) ELSE NegDigits(0 - n)

\* ------------------------------------------------------------------ models

\* models::Book.
Book(id, name, author) == [id |-> id, name |-> name, author |-> author]

\* models::NewBook: Book minus the id.
NewBook(name, author) == [name |-> name, author |-> author]

\* ------------------------------------------------------------------ errors

\* BookRepoError::new / From<E>: wraps exactly one backend error.
BookRepoError_new(source) == [source |-> source]

\* From<bb8::RunError<PoolError>> for BookRepoError<DatabaseError>.
FromPoolError(error) == BookRepoError_new([kind |-> "PoolError", cause |-> error])

\* From<diesel::result::Error> for BookRepoError<DatabaseError>.
FromResultError(error) == BookRepoError_new([kind |-> "ResultError", cause |-> error])

\* Display for DatabaseError: one fixed text per variant.
Display_DatabaseError(e) ==
    IF e.kind = "PoolError"
    THEN <<"problem getting a connection from the connection pool">>
    ELSE <<"problem executing a statement against the DB">>

\* The unit tests' MockError {} and its Display.
MockError == [kind |-> "MockError"]

Display_MockError(e) == <<"something went wrong!">>

\* Display of a backend error kind E.
Display_Source(e) ==
    IF e.kind = "MockError" THEN Display_MockError(e) ELSE Display_DatabaseError(e)

\* Display for BookRepoError that puts its own words before the source's.
Display_BookRepoError_Prefixed(e) == <<"repository error: ">> \o Display_Source(e.source)

\* Display for BookRepoError<E>: delegates to the wrapped source.
Display_BookRepoError(e) == Display_Source(e.source)

\* err.to_string() of the error a repository call returned.
to_string(err) ==
    IF "source" \in DOMAIN err THEN Display_BookRepoError(err) ELSE Display_Source(err)

\* ------------------------------------------------------------------- state

VARIABLES
    impl,           \* the BookRepo the router was built on: "database" or "mock"
    raise_errors,   \* MockBookRepo.raise_errors
    table,          \* the rows of the books table behind DatabaseBookRepo
    seq,            \* last value of the id sequence of the books table
    db,             \* MockBookRepo.db: HashMap<i32, Book>, a function key -> Book
    last,           \* the request handled last and what was answered
    nreq,           \* requests handled so far
    tasks,          \* the requests in flight, each at one of its await points
    idle,           \* the connections of the pool that are not checked out
    applied         \* the tasks whose statement reached the database, in order

vars == <<impl, raise_errors, table, seq, db, last, nreq, tasks, idle, applied>>

\* How one repository call ends: its result and the store it leaves.
Outcome(result, t, s, d) == [result |-> result, table |-> t, seq |-> s, db |-> d]

Unchanged(result) == Outcome(result, table, seq, db)

\* The ? operator on a diesel result inside DatabaseBookRepo.
Try(r) == IF r.tag = "Err" THEN Err(FromResultError(r.err)) ELSE r

\* ----------------------------------------------------- the database (diesel)

\* What can go wrong in the backend during one repository call.
DatabaseFaults == {"none", "pool", "statement"}

\* self.pool.get().await
PoolGet(fault) == IF fault = "pool" THEN Err("TimedOut") ELSE Ok("conn")

\* The sets obtained from S by leaving out k elements.
RECURSIVE LeaveOut(_, _)
LeaveOut(S, k) ==
    IF k = 0 THEN {S} ELSE UNION {LeaveOut(S \ {x}, k - 1) : x \in S}

\* Limit with the page cut down to a single row.
Limit_One(rows, n) == IF rows = {} THEN {rows} ELSE {{row} : row \in rows}

\* LIMIT n without ORDER BY: any n of the rows, all of them when there are
\* no more than n.
Limit(rows, n) ==
    IF Cardinality(rows) <= n THEN {rows} ELSE LeaveOut(rows, Cardinality(rows) - n)

\* books::table.find(id): the rows whose primary key is id.
Find(id) == {row \in table : row.id = id}

\* Optional without the NotFound case: a missing row stays an error.
Optional_KeepsNotFound(r) == IF r.tag = "Ok" THEN Ok(Some(r.val)) ELSE r

\* .optional(): Err(NotFound) becomes Ok(None), Ok(v) becomes Ok(Some(v)),
\* every other error stays.
Optional(r) ==
    IF r.tag = "Ok" THEN Ok(Some(r.val))
    ELSE IF r.err = "NotFound" THEN Ok(None)
    ELSE r

\* .select(..).limit(100).load(&mut conn)
Load(fault) ==
    IF fault = "statement" THEN {Err("DatabaseError")}
    ELSE {Ok(rows) : rows \in Limit(table, PageLimit)}

\* .find(id).select(..).first(&mut conn): the row, or Err(NotFound).
First(id, fault) ==
    IF fault = "statement" THEN {Err("DatabaseError")}
    ELSE IF Find(id) = {} THEN {Err("NotFound")}
    ELSE {Ok(row) : row \in Find(id)}

\* The id the books table gives a new row: the next value of its sequence.
NextVal == seq + 1

\* InsertReturning with the row returned but not added to the table.
InsertReturning_NotStored(new_book, fault) ==
    IF fault = "statement" THEN {Unchanged(Err("DatabaseError"))}
    ELSE {Outcome(Ok(Book(seq + 1, new_book.name, new_book.author)), table, seq + 1, db)}

\* insert_into(books::table).values(new_book).returning(..).get_result(..):
\* the new row takes name and author from new_book and its id from the table.
InsertReturning(new_book, fault) ==
    IF fault = "statement" THEN {Unchanged(Err("DatabaseError"))}
    ELSE LET row == Book(NextVal, new_book.name, new_book.author)
         IN  {Outcome(Ok(row), table \cup {row}, NextVal, db)}

\* A changeset that sets the name only.
Set_NameOnly(row, new_book) == Book(row.id, new_book.name, row.author)

\* AsChangeset for NewBook: SET name = .., author = .. on a row.
Set(row, new_book) == Book(row.id, new_book.name, new_book.author)

\* UpdateReturning that writes the name and leaves the author of the row.
UpdateReturning_KeepsAuthor(id, new_book, fault) ==
    IF fault = "statement" THEN {Unchanged(Err("DatabaseError"))}
    ELSE IF Find(id) = {} THEN {Unchanged(Err("NotFound"))}
    ELSE LET updated == {Book(row.id, new_book.name, row.author) : row \in Find(id)}
         IN  {Outcome(Ok(row), (table \ Find(id)) \cup updated, seq, db) : row \in updated}

\* update(books::table.find(id)).set(new_book).returning(..).get_result(..):
\* the updated row, or Err(NotFound) when no row matched.
UpdateReturning(id, new_book, fault) ==
    IF fault = "statement" THEN {Unchanged(Err("DatabaseError"))}
    ELSE IF Find(id) = {} THEN {Unchanged(Err("NotFound"))}
    ELSE LET updated == {Set(row, new_book) : row \in Find(id)}
         IN  {Outcome(Ok(row), (table \ Find(id)) \cup updated, seq, db) : row \in updated}

\* DeleteExecute without the find(id) filter: every row goes.
DeleteExecute_NoFilter(id, fault) ==
    IF fault = "statement" THEN {Unchanged(Err("DatabaseError"))}
    ELSE {Outcome(Ok(Cardinality(table)), {}, seq, db)}

\* DeleteExecute that counts the rows of the id and leaves them in the table.
DeleteExecute_KeepsRows(id, fault) ==
    IF fault = "statement" THEN {Unchanged(Err("DatabaseError"))}
    ELSE {Unchanged(Ok(Cardinality(Find(id))))}

\* delete(books::table.find(id)).execute(..): the number of rows removed.
DeleteExecute(id, fault) ==
    IF fault = "statement" THEN {Unchanged(Err("DatabaseError"))}
    ELSE {Outcome(Ok(Cardinality(Find(id))), table \ Find(id), seq, db)}

\* AffectedIsOne with the comparison turned into affected_rows >= 0.
AffectedIsOne_AtLeastZero(r) == IF r.tag = "Ok" THEN Ok(r.val >= 0) ELSE r

\* .map(|affected_rows| affected_rows == 1)
AffectedIsOne(r) == IF r.tag = "Ok" THEN Ok(r.val = 1) ELSE r

\* With(o, f): outcome o with its result replaced.
WithResult(o, result) == [o EXCEPT !.result = result]

DatabaseBookRepo_list_books(fault) ==
    IF PoolGet(fault).tag = "Err"
    THEN {Unchanged(Err(FromPoolError(PoolGet(fault).err)))}
    ELSE {Unchanged(Try(r)) : r \in Load(fault)}

DatabaseBookRepo_get_book(id, fault) ==
    IF PoolGet(fault).tag = "Err"
    THEN {Unchanged(Err(FromPoolError(PoolGet(fault).err)))}
    ELSE {Unchanged(Try(Optional(r))) : r \in First(id, fault)}

\* insert_book with a second attempt after a statement that failed.
DatabaseBookRepo_insert_book_Retrying(new_book, fault) ==
    IF PoolGet(fault).tag = "Err"
    THEN {Unchanged(Err(FromPoolError(PoolGet(fault).err)))}
    ELSE {WithResult(o, Try(o.result)) : o \in InsertReturning(new_book, "none")}

DatabaseBookRepo_insert_book(new_book, fault) ==
    IF PoolGet(fault).tag = "Err"
    THEN {Unchanged(Err(FromPoolError(PoolGet(fault).err)))}
    ELSE {WithResult(o, Try(o.result)) : o \in InsertReturning(new_book, fault)}

DatabaseBookRepo_update_book(id, new_book, fault) ==
    IF PoolGet(fault).tag = "Err"
    THEN {Unchanged(Err(FromPoolError(PoolGet(fault).err)))}
    ELSE {WithResult(o, Try(Optional(o.result))) : o \in UpdateReturning(id, new_book, fault)}

DatabaseBookRepo_delete_book(id, fault) ==
    IF PoolGet(fault).tag = "Err"
    THEN {Unchanged(Err(FromPoolError(PoolGet(fault).err)))}
    ELSE {WithResult(o, Try(AffectedIsOne(o.result))) : o \in DeleteExecute(id, fault)}

\* ------------------------------------------- the mock of the handler tests

\* A handler that reaches todo!() panics: there is no result.
Panic == [tag |-> "Panic"]

\* i32 + 1 as a build without overflow checks computes it.
WrappingInc(n) == IF n = I32Max THEN I32Min ELSE n + 1

Max(S) == CHOOSE x \in S : \A y \in S : y <= x

\* FreshId without the + 1.
FreshId_NoIncrement(keys) == IF keys = {} THEN 0 ELSE Max(keys)

\* db.keys().max().unwrap_or(&0) + 1
FreshId(keys) == WrappingInc(IF keys = {} THEN 0 ELSE Max(keys))

\* db.insert(key, book) on the HashMap.
MapInsert(map, key, book) ==
    [k \in DOMAIN map \cup {key} |-> IF k = key THEN book ELSE map[k]]

MockBookRepo_list_books ==
    IF raise_errors THEN {Unchanged(Err(MockError))}
    ELSE {Unchanged(Ok({db[k] : k \in DOMAIN db}))}

MockBookRepo_get_book(id) ==
    IF raise_errors THEN {Unchanged(Err(MockError))}
    ELSE {Unchanged(Ok(IF id \in DOMAIN db THEN Some(db[id]) ELSE None))}

MockBookRepo_insert_book(new_book) ==
    IF raise_errors THEN {Unchanged(Err(MockError))}
    ELSE LET fresh_id == FreshId(DOMAIN db)
             book == Book(fresh_id, new_book.name, new_book.author)
         IN  {Outcome(Ok(book), table, seq, MapInsert(db, fresh_id, book))}

\* todo!()
MockBookRepo_update_book(id, new_book) == {Unchanged(Panic)}

\* todo!()
MockBookRepo_delete_book(id) == {Unchanged(Panic)}

\* ------------------------------------------- the repository contract (trait)

BookRepo_list_books(fault) ==
    IF impl = "database" THEN DatabaseBookRepo_list_books(fault)
    ELSE MockBookRepo_list_books

BookRepo_get_book(id, fault) ==
    IF impl = "database" THEN DatabaseBookRepo_get_book(id, fault)
    ELSE MockBookRepo_get_book(id)

BookRepo_insert_book(new_book, fault) ==
    IF impl = "database" THEN DatabaseBookRepo_insert_book(new_book, fault)
    ELSE MockBookRepo_insert_book(new_book)

BookRepo_update_book(id, new_book, fault) ==
    IF impl = "database" THEN DatabaseBookRepo_update_book(id, new_book, fault)
    ELSE MockBookRepo_update_book(id, new_book)

BookRepo_delete_book(id, fault) ==
    IF impl = "database" THEN DatabaseBookRepo_delete_book(id, fault)
    ELSE MockBookRepo_delete_book(id)

\* ---------------------------------------------------------------- responses

TextResponse(status, text) == [status |-> status, body |-> [kind |-> "text", text |-> text]]

EmptyResponse(status) == [status |-> status, body |-> [kind |-> "empty"]]

\* Ok(Json(book)) and Ok(Json(books)) as responses.
JsonBook(book) == [status |-> OK, body |-> [kind |-> "book", book |-> book]]

JsonBooks(books) == [status |-> OK, body |-> [kind |-> "books", books |-> books]]

\* (StatusCode, String) as a response.
IntoResponse(error) == TextResponse(error[1], error[2])

\* The handler panicked: nothing is answered.
NoResponse == [status |-> 0, body |-> [kind |-> "none"]]

\* Build a 500 response for an error.
internal_error(err) == <<INTERNAL_SERVER_ERROR, to_string(err)>>

parse_book_id(id) ==
    IF ParseI32(id).ok THEN Ok(ParseI32(id).val)
    ELSE Err(<<BAD_REQUEST, <<"Invalid book ID: ">> \o id>>)

\* axum's Json<NewBook> extractor on a request body: the fields name and
\* author of a well-formed body (serde drops every other field), else the
\* extractor's own rejection.
Json_from_request(body) ==
    CASE body.kind = "json" -> Ok(NewBook(body.name, body.author))
      [] body.kind = "syntax_error" ->
            Err(<<BAD_REQUEST, <<"Failed to parse the request body as JSON">>>>)
      [] body.kind = "data_error" ->
            Err(<<UNPROCESSABLE_ENTITY,
                  <<"Failed to deserialize the JSON body into the target type">>>>)
      [] body.kind = "missing_content_type" ->
            Err(<<UNSUPPORTED_MEDIA_TYPE,
                  <<"Expected request with Content-Type: application/json">>>>)

\* ----------------------------------------------------------------- handlers

\* What handling one request amounts to: the response, the number of
\* repository operations invoked, and the store afterwards.
Answer(resp, calls, o) ==
    [resp |-> resp, calls |-> calls, table |-> o.table, seq |-> o.seq, db |-> o.db]

\* The request ended before any repository call.
Early(resp) == Answer(resp, 0, Unchanged(Ok(TRUE)))

list_books_response(result) ==
    CASE result.tag = "Panic" -> NoResponse
      [] result.tag = "Err" -> IntoResponse(internal_error(result.err))
      [] OTHER -> JsonBooks(result.val)

list_books(fault) ==
    {Answer(list_books_response(o.result), 1, o) : o \in BookRepo_list_books(fault)}

get_book_response(result, id) ==
    CASE result.tag = "Panic" -> NoResponse
      [] result.tag = "Err" -> IntoResponse(internal_error(result.err))
      [] result.val.some -> JsonBook(result.val.val)
      [] OTHER -> TextResponse(NOT_FOUND, <<"No book found with ID: ">> \o FormatI32(id))

get_book(seg, fault) ==
    LET id == parse_book_id(seg)
    IN  IF id.tag = "Err" THEN {Early(IntoResponse(id.err))}
        ELSE {Answer(get_book_response(o.result, id.val), 1, o) :
                 o \in BookRepo_get_book(id.val, fault)}

insert_book_response(result) ==
    CASE result.tag = "Panic" -> NoResponse
      [] result.tag = "Err" -> IntoResponse(internal_error(result.err))
      [] OTHER -> JsonBook(result.val)

insert_book(body, fault) ==
    LET new_book == Json_from_request(body)
    IN  IF new_book.tag = "Err" THEN {Early(IntoResponse(new_book.err))}
        ELSE {Answer(insert_book_response(o.result), 1, o) :
                 o \in BookRepo_insert_book(new_book.val, fault)}

update_book_response(result, id) ==
    CASE result.tag = "Panic" -> NoResponse
      [] result.tag = "Err" -> IntoResponse(internal_error(result.err))
      [] result.val.some -> JsonBook(result.val.val)
      [] OTHER -> TextResponse(NOT_FOUND, <<"No book found with ID: ">> \o FormatI32(id))

\* The extractors run before the body of the handler: Path, then Json.
update_book(seg, body, fault) ==
    LET new_book == Json_from_request(body)
        id == parse_book_id(seg)
    IN  IF new_book.tag = "Err" THEN {Early(IntoResponse(new_book.err))}
        ELSE IF id.tag = "Err" THEN {Early(IntoResponse(id.err))}
        ELSE {Answer(update_book_response(o.result, id.val), 1, o) :
                 o \in BookRepo_update_book(id.val, new_book.val, fault)}

\* Result<bool, (StatusCode, String)> of try_to_delete_book, with the number
\* of repository operations invoked and the store afterwards.
try_to_delete_book(seg, fault) ==
    LET id == parse_book_id(seg)
    IN  IF id.tag = "Err" THEN {Answer(id, 0, Unchanged(Ok(TRUE)))}
        ELSE {Answer(IF o.result.tag = "Err" THEN Err(internal_error(o.result.err))
                     ELSE o.result, 1, o) :
                 o \in BookRepo_delete_book(id.val, fault)}

\* The 404 body is built from the path segment, not from the parsed id.
delete_book_response(deleted_or_error, seg) ==
    CASE deleted_or_error.tag = "Panic" -> NoResponse
      [] deleted_or_error.tag = "Err" -> IntoResponse(deleted_or_error.err)
      [] deleted_or_error.val -> EmptyResponse(NO_CONTENT)
      [] OTHER -> TextResponse(NOT_FOUND, <<"No book found with ID: ">> \o seg)

delete_book(seg, fault) ==
    {[a EXCEPT !.resp = delete_book_response(a.resp, seg)] :
        a \in try_to_delete_book(seg, fault)}

\* ----------------------------------------------------------------- requests

\* The {id} path segments requests carry: an id in canonical form, the same
\* id with a sign, another id, a negative id, a segment that is no number
\* and a number beyond i32.
Segments ==
    { <<"1">>, <<"+", "1">>, <<"1", "0">>, <<"-", "1">>, <<"x">>,
      <<"2", "1", "4", "7", "4", "8", "3", "6", "4", "8">> }

\* A well-formed JSON body; a field other than name and author may be present.
JsonBody(name, author, id) == [kind |-> "json", name |-> name, author |-> author, id |-> id]

\* The request bodies: well-formed ones (one names an id and repeats the name
\* and author of a stored book), text that is no JSON, JSON of another shape,
\* and a body sent without the JSON content type.
Bodies ==
    { JsonBody("Paradise Lost", "John Milton", None),
      JsonBody("Great Expectations", "Charles Dickens", None),
      JsonBody("TAOCP", "Donald Knuth", Some(10)),
      [kind |-> "syntax_error"], [kind |-> "data_error"], [kind |-> "missing_content_type"] }

NoBody == [kind |-> "none"]

\* The backend faults that can occur under the repository in use.
Faults == IF impl = "database" THEN DatabaseFaults ELSE {"none"}

\* The faults that can occur during a request: none when its path segment or
\* its body keeps it from the repository.
FaultsDuring(seg_ok, body_ok) == IF seg_ok /\ body_ok THEN Faults ELSE {"none"}

\* The id of the book an exchange succeeded on: the id of the book a 200
\* carries, the id a 204 deleted.
SucceededOn(e) ==
    IF e.resp.body.kind = "book" THEN Some(e.resp.body.book.id)
    ELSE IF e.resp.status = NO_CONTENT THEN Some(ParseI32(e.seg).val)
    ELSE None

\* The route of the exchange before this request when that exchange succeeded
\* on the id this request addresses, "none" otherwise.
After(seg) ==
    IF ParseI32(seg).ok /\ SucceededOn(last) = Some(ParseI32(seg).val)
    THEN last.route ELSE "none"

\* One request and what was answered.
Exchange(route, seg, json, fault, a) ==
    [route |-> route, seg |-> seg, json |-> json, fault |-> fault,
     after |-> After(seg), calls |-> a.calls, resp |-> a.resp]

NoExchange ==
    [route |-> "none", seg |-> <<>>, json |-> NoBody, fault |-> "none",
     after |-> "none", calls |-> 0, resp |-> NoResponse]

\* ------------------------------------------------------------ tasks and pool

\* One task per request in flight.
Tasks == 1..MaxTasks

\* The connections of the bb8 pool.
Connections == 1..PoolSize

\* The result of a repository call that has not returned.
Pending == [tag |-> "Pending"]

\* A task no request has been given to.
NoTask ==
    [pc |-> "idle", route |-> "none", seg |-> <<>>, json |-> NoBody, fault |-> "none",
     conns |-> {}, result |-> Pending, resp |-> NoResponse]

\* ------------------------------------------------------------ initial stores

\* build_db() of the handler tests.
build_db ==
    (10 :> Book(10, "TAOCP", "Donald Knuth")) @@
    (20 :> Book(20, "Manual of Ethics", "John Mackenzie"))

\* A store with more books than one page of list_books holds.
BulkIds == 1..(PageLimit + 1)

BulkBook(i) == Book(i, "Bulk", "Anon")

EmptyMap == [k \in {} |-> None]

TwoRows == {Book(1, "TAOCP", "Donald Knuth"), Book(10, "Manual of Ethics", "John Mackenzie")}

\* The service starts on one of the tables with its id sequence at the
\* largest id handed out, or a handler test starts on one of the maps.
Start(tables, maps) ==
    /\ impl \in {"database", "mock"}
    /\ IF impl = "database"
       THEN /\ raise_errors = FALSE
            /\ db = EmptyMap
            /\ table \in tables
            /\ seq = IF table = {} THEN 0 ELSE Max({row.id : row \in table})
       ELSE /\ raise_errors \in BOOLEAN
            /\ db \in maps
            /\ table = {}
            /\ seq = 0
    /\ last = NoExchange
    /\ nreq = 0
    /\ tasks = [t \in Tasks |-> NoTask]
    /\ idle = Connections
    /\ applied = <<>>

\* An empty store, or one with two books.
Init == Start({{}, TwoRows}, {EmptyMap, build_db})

\* A store with one book more than a page.
InitBulk == Start({{BulkBook(i) : i \in BulkIds}}, {[i \in BulkIds |-> BulkBook(i)]})

\* ------------------------------------------------------------------ actions

\* The store holds fewer rows than the model allows.
RoomToInsert ==
    IF impl = "database" THEN Cardinality(table) < MaxRows
    ELSE Cardinality(DOMAIN db) < MaxRows

\* The request has been handled: the store is as the handler left it and the
\* exchange is on record.
Handled(route, seg, json, fault, a) ==
    /\ table' = a.table
    /\ seq' = a.seq
    /\ db' = a.db
    /\ last' = Exchange(route, seg, json, fault, a)
    /\ nreq' = nreq + 1
    /\ UNCHANGED <<impl, raise_errors, tasks, idle, applied>>

\* GET /books
ListBooks ==
    /\ nreq < MaxRequests
    /\ \E fault \in Faults :
         \E a \in list_books(fault) : Handled("list_books", <<>>, NoBody, fault, a)

\* GET /books/{id}
GetBook ==
    /\ nreq < MaxRequests
    /\ \E seg \in Segments :
         \E fault \in FaultsDuring(ParseI32(seg).ok, TRUE) :
            \E a \in get_book(seg, fault) : Handled("get_book", seg, NoBody, fault, a)

\* POST /books
InsertBook ==
    /\ nreq < MaxRequests
    /\ RoomToInsert
    /\ \E body \in Bodies :
         \E fault \in FaultsDuring(TRUE, body.kind = "json") :
            \E a \in insert_book(body, fault) : Handled("insert_book", <<>>, body, fault, a)

\* PUT /books/{id}
UpdateBook ==
    /\ nreq < MaxRequests
    /\ \E seg \in Segments, body \in Bodies :
         \E fault \in FaultsDuring(ParseI32(seg).ok, body.kind = "json") :
            \E a \in update_book(seg, body, fault) : Handled("update_book", seg, body, fault, a)

\* DELETE /books/{id}
DeleteBook ==
    /\ nreq < MaxRequests
    /\ \E seg \in Segments :
         \E fault \in FaultsDuring(ParseI32(seg).ok, TRUE) :
            \E a \in delete_book(seg, fault) : Handled("delete_book", seg, NoBody, fault, a)

Next == ListBooks \/ GetBook \/ InsertBook \/ UpdateBook \/ DeleteBook

Spec == Init /\ [][Next]_vars

\* The same service, started on a store that holds more than one page.
BulkSpec == InitBulk /\ [][Next]_vars

\* ------------------------------------------ requests handled concurrently
\*
\* Each request is a task of the runtime.  Against DatabaseBookRepo a handler
\* suspends at pool.get().await and at the .await of its one statement; what
\* lies between two of these points runs without interruption.  The database
\* executes a statement atomically, at some moment before the task resumes.

Request(route, seg, json) == [route |-> route, seg |-> seg, json |-> json]

\* The requests in flight: on the book of id 1, on the whole table, and one
\* whose id does not parse.
ConcurrentRequests ==
    { Request("list_books", <<>>, NoBody),
      Request("get_book", <<"1">>, NoBody),
      Request("get_book", <<"x">>, NoBody),
      Request("insert_book", <<>>, JsonBody("Paradise Lost", "John Milton", None)),
      Request("update_book", <<"1">>, JsonBody("Paradise Lost", "John Milton", None)),
      Request("update_book", <<"1">>, JsonBody("Great Expectations", "Charles Dickens", None)),
      Request("delete_book", <<"1">>, NoBody) }

\* The router: the handler of the route, run to its end.
Route(req, fault) ==
    CASE req.route = "list_books" -> list_books(fault)
      [] req.route = "get_book" -> get_book(req.seg, fault)
      [] req.route = "insert_book" -> insert_book(req.json, fault)
      [] req.route = "update_book" -> update_book(req.seg, req.json, fault)
      [] req.route = "delete_book" -> delete_book(req.seg, fault)

\* The responses of a request that an extractor or parse_book_id ends before
\* the repository is called; none when the handler goes on to the call.
Rejections(req) == {a.resp : a \in {b \in Route(req, "none") : b.calls = 0}}

\* The repository call of the task's handler, from the point the task has
\* reached: what it returns and the store it leaves.
Call(task, fault) ==
    LET id == ParseI32(task.seg).val
        new_book == Json_from_request(task.json).val
    IN  CASE task.route = "list_books" -> DatabaseBookRepo_list_books(fault)
          [] task.route = "get_book" -> DatabaseBookRepo_get_book(id, fault)
          [] task.route = "insert_book" -> DatabaseBookRepo_insert_book(new_book, fault)
          [] task.route = "update_book" -> DatabaseBookRepo_update_book(id, new_book, fault)
          [] task.route = "delete_book" -> DatabaseBookRepo_delete_book(id, fault)

\* The rest of the handler once the repository call has returned.
Respond(task, result) ==
    LET id == ParseI32(task.seg).val
    IN  CASE task.route = "list_books" -> list_books_response(result)
          [] task.route = "get_book" -> get_book_response(result, id)
          [] task.route = "insert_book" -> insert_book_response(result)
          [] task.route = "update_book" -> update_book_response(result, id)
          [] task.route = "delete_book" ->
                delete_book_response(IF result.tag = "Err"
                                     THEN Err(internal_error(result.err))
                                     ELSE result, task.seg)

\* The pool hands out an idle connection.
TakeIdle(conns) == CHOOSE c \in conns : \A d \in conns : c <= d

\* The connections a task still holds at the end of the repository function
\* when an error leaves them checked out.
ConnAtReturn_KeptOnError(held, result) == IF result.tag = "Err" THEN held ELSE {}

\* The connections a task still holds at the end of the repository function:
\* conn is a local of the function and is dropped with its scope, whatever
\* the function returns.
ConnAtReturn(held, result) == {}

\* The repository function of task t returns result: its connection goes
\* back to the pool and the handler builds the response.
Returned(t, fault, result) ==
    LET kept == ConnAtReturn(tasks[t].conns, result)
    IN  /\ tasks' = [tasks EXCEPT ![t] =
                        [@ EXCEPT !.pc = "done", !.fault = fault, !.conns = kept,
                                  !.result = result, !.resp = Respond(tasks[t], result)]]
        /\ idle' = idle \cup (tasks[t].conns \ kept)

\* A request arrives and its handler runs up to pool.get().await, or to its
\* end when the extractors or parse_book_id reject the request.
Receive(t) ==
    /\ tasks[t].pc = "idle"
    /\ IF t = 1 THEN TRUE ELSE tasks[t - 1].pc # "idle"
    /\ \E req \in ConcurrentRequests :
          LET task == [NoTask EXCEPT !.route = req.route, !.seg = req.seg, !.json = req.json]
          IN  tasks' = [tasks EXCEPT ![t] =
                           IF Rejections(req) = {}
                           THEN [task EXCEPT !.pc = "waiting"]
                           ELSE [task EXCEPT !.pc = "done",
                                             !.resp = CHOOSE r \in Rejections(req) : TRUE]]
    /\ UNCHANGED <<impl, raise_errors, table, seq, db, last, nreq, idle, applied>>

\* pool.get().await completes: the task holds a connection and sends its
\* statement, or the pool reports an error and the handler answers.
Acquire(t) ==
    /\ tasks[t].pc = "waiting"
    /\ \E fault \in {"none", "pool"} :
          IF PoolGet(fault).tag = "Ok"
          THEN /\ idle # {}
               /\ tasks' = [tasks EXCEPT ![t] =
                               [@ EXCEPT !.pc = "holding",
                                         !.conns = @ \cup {TakeIdle(idle)}]]
               /\ idle' = idle \ {TakeIdle(idle)}
          ELSE \E o \in Call(tasks[t], fault) : Returned(t, fault, o.result)
    /\ UNCHANGED <<impl, raise_errors, table, seq, db, last, nreq, applied>>

\* The database executes the statement of the task, or fails to.
Execute(t) ==
    /\ tasks[t].pc = "holding"
    /\ \E fault \in {"none", "statement"} :
          \E o \in Call(tasks[t], fault) :
             /\ table' = o.table
             /\ seq' = o.seq
             /\ tasks' = [tasks EXCEPT ![t] =
                             [@ EXCEPT !.pc = "executed", !.fault = fault,
                                       !.result = o.result]]
    /\ applied' = Append(applied, t)
    /\ UNCHANGED <<impl, raise_errors, db, last, nreq, idle>>

\* The statement's .await completes: the repository function returns and the
\* handler answers.
Return(t) ==
    /\ tasks[t].pc = "executed"
    /\ Returned(t, tasks[t].fault, tasks[t].result)
    /\ UNCHANGED <<impl, raise_errors, table, seq, db, last, nreq, applied>>

NextConcurrent ==
    \E t \in Tasks : Receive(t) \/ Acquire(t) \/ Execute(t) \/ Return(t)

\* The service on the table of two books, its requests handled concurrently.
InitConcurrent == Start({TwoRows}, {})

ConcurrentSpec == InitConcurrent /\ [][NextConcurrent]_vars

\* ------------------------------------------------ what the claims speak of

\* The books the store holds.
Stored == IF impl = "database" THEN table ELSE {db[k] : k \in DOMAIN db}

\* The books the store holds under an id.
StoredUnder(id) ==
    IF impl = "database" THEN {row \in table : row.id = id}
    ELSE IF id \in DOMAIN db THEN {db[id]} ELSE {}

\* The exchange reached the repository and the backend worked during it.
Working(e) == e.calls = 1 /\ e.fault = "none" /\ ~raise_errors

\* The exchange is a request of one of the routes that take an {id}.
TakesId(e) == e.route \in {"get_book", "update_book", "delete_book"}

\* The id the exchange addresses, if any.
Addressed(e) == IF TakesId(e) /\ ParseI32(e.seg).ok THEN Some(ParseI32(e.seg).val) ELSE None

\* The exchange addresses the id.
Addresses(e, id) == Addressed(e) = Some(id)

\* ----------------------------------------------------------------------- C1

\* After a successful insert the store holds the returned book under its id,
\* and the book carries the name and the author of the request.
InsertStoresReturnedBook ==
    (last.route = "insert_book" /\ last.resp.status = OK) =>
        /\ StoredUnder(last.resp.body.book.id) = {last.resp.body.book}
        /\ last.resp.body.book.name = last.json.name
        /\ last.resp.body.book.author = last.json.author

\* A get that follows a successful insert and addresses the returned id
\* answers 200 with the returned book.
GetAfterInsert ==
    (/\ last.route = "insert_book" /\ last.resp.status = OK
     /\ last'.route = "get_book" /\ Working(last')
     /\ Addresses(last', last.resp.body.book.id))
    => last'.resp = [status |-> 200, body |-> [kind |-> "book", book |-> last.resp.body.book]]

\* A get answers with the book the store holds under the id it addresses.
GetReturnsStored ==
    (last'.route = "get_book" /\ Working(last') /\ Addressed(last').some) =>
        \A book \in StoredUnder(Addressed(last').val) :
            last'.resp = [status |-> 200, body |-> [kind |-> "book", book |-> book]]

\* A request leaves in the store every book whose id it does not address.
KeepsBooksNotAddressed ==
    LET id == Addressed(last')
    IN  {book \in Stored : id # Some(book.id)} \subseteq Stored'

\* C1: when insert succeeds and returns a book B, the store holds B under
\* B.id with the name and author of the input, and a following get of B.id,
\* with no other request on that id in between, answers 200 with B.
C1_InsertThenGet ==
    [][/\ InsertStoresReturnedBook'
       /\ GetAfterInsert
       /\ GetReturnsStored
       /\ KeepsBooksNotAddressed]_vars

\* A get addressed the id a successful insert had just returned, and answered 200.
C1_Witness ==
    /\ last.route = "get_book"
    /\ last.after = "insert_book"
    /\ last.resp.status = OK
    /\ last.resp.body.book \in Stored

\* ----------------------------------------------------------------------- C2

\* The repository in use implements the route of the exchange: MockBookRepo
\* leaves update_book and delete_book as todo!().
Implemented(e) == impl = "database" \/ e.route \in {"list_books", "get_book", "insert_book"}

\* A get, update or delete that reaches a working repository with an id the
\* store holds no book under answers 404.
AbsentIs404 ==
    (/\ TakesId(last') /\ Implemented(last') /\ Working(last')
     /\ StoredUnder(Addressed(last').val) = {})
    => /\ last'.resp.status = 404
       /\ last'.resp.body.kind = "text"
       /\ Stored' = Stored

\* C2: for every id not present in the backend, with the backend working,
\* get, update and delete answer 404 and never 500: absence is a value of
\* the repository call, not an error.
C2_AbsentIsNotFound == [][AbsentIs404]_vars

\* An update reached the database, found no row under the id and was
\* answered 404 while the table held other books.
C2_Witness ==
    /\ impl = "database"
    /\ last.route = "update_book"
    /\ last.calls = 1
    /\ last.fault = "none"
    /\ last.resp.status = NOT_FOUND
    /\ table # {}

\* ----------------------------------------------------------------------- C3

\* C3: for every path segment that does not parse as a signed integer, get,
\* update and delete answer 400 with body "Invalid book ID: {segment}", and
\* no repository operation is invoked while the request is handled.
C3_BadIdIs400 ==
    (TakesId(last) /\ ~ParseI32(last.seg).ok) =>
        /\ last.resp = [status |-> 400,
                        body |-> [kind |-> "text",
                                  text |-> <<"Invalid book ID: ">> \o last.seg]]
        /\ last.calls = 0

\* ----------------------------------------------------------------------- C4

\* A delete of an id the table holds a book under answers 204 and removes it.
DeleteRemoves ==
    (/\ impl = "database" /\ last'.route = "delete_book" /\ Working(last')
     /\ StoredUnder(Addressed(last').val) # {})
    => /\ last'.resp = [status |-> 204, body |-> [kind |-> "empty"]]
       /\ {book \in Stored' : Some(book.id) = Addressed(last')} = {}

\* A delete that follows a delete answered 204 and addresses the same id
\* answers 404 and leaves the store as it was.
SecondDeleteIs404 ==
    (/\ impl = "database"
     /\ last.route = "delete_book" /\ last.resp.status = 204
     /\ last'.route = "delete_book" /\ Working(last')
     /\ Addressed(last') = Addressed(last))
    => /\ last'.resp.status = 404
       /\ table' = table

\* C4: the first delete of an existing id answers 204 and removes the book;
\* an immediate second delete of the same id answers 404 and leaves the
\* store as the first left it.
C4_DeleteTwice == [][DeleteRemoves /\ SecondDeleteIs404]_vars

\* A delete followed a delete that was answered 204 on the same id, and was
\* answered 404.
C4_Witness ==
    /\ last.route = "delete_book"
    /\ last.after = "delete_book"
    /\ last.fault = "none"
    /\ last.resp.status = NOT_FOUND

\* ----------------------------------------------------------------------- C5

\* C5: the list route never returns more than 100 entries, however many books
\* the store holds and whichever implementation of the repository contract
\* the handler is built on.
C5_ListAtMostPage ==
    (last.route = "list_books" /\ last.resp.status = OK) =>
        Cardinality(last.resp.body.books) <= 100

\* ----------------------------------------------------------------------- C6

\* The response a failure with this display text is answered with.
FailureResponse(text) == [status |-> 500, body |-> [kind |-> "text", text |-> <<text>>]]

\* C6: when the repository reports a failure on any of the five operations,
\* failure to obtain a pooled connection included, the route answers 500 with
\* the display text of the backend error the repository error wraps, unchanged.
C6_FailureIs500 ==
    /\ last.fault = "pool" =>
          last.resp = FailureResponse("problem getting a connection from the connection pool")
    /\ last.fault = "statement" =>
          last.resp = FailureResponse("problem executing a statement against the DB")
    /\ (impl = "mock" /\ raise_errors /\ last.calls = 1 /\ Implemented(last)) =>
          last.resp = FailureResponse("something went wrong!")

\* A delete found no connection in the pool and was answered 500.
C6_Witness ==
    /\ last.route = "delete_book"
    /\ last.fault = "pool"
    /\ last.resp.status = INTERNAL_SERVER_ERROR

\* ----------------------------------------------------------------------- C7

\* C7: every response of the five routes, for any request (a malformed body,
\* alone or together with a malformed id, included), has its status in
\* {200, 204, 400, 404, 500}.
C7_StatusInRule ==
    last.resp.body.kind # "none" => last.resp.status \in {200, 204, 400, 404, 500}

\* ----------------------------------------------------------------------- C8

\* An update of an id the table holds a book under, with the backend working,
\* answers 200 with the book of that id whose name and author are those of
\* the request, and that book is what the table then holds under the id.
UpdateReplaces ==
    (/\ impl = "database" /\ last'.route = "update_book" /\ Working(last')
     /\ StoredUnder(Addressed(last').val) # {})
    => LET id == Addressed(last').val
           book == [id |-> id, name |-> last'.json.name, author |-> last'.json.author]
       IN  /\ last'.resp = [status |-> 200, body |-> [kind |-> "book", book |-> book]]
           /\ {b \in Stored' : b.id = id} = {book}

\* A get that follows a successful update and addresses the same id answers
\* 200 with the book the update returned.
GetAfterUpdate ==
    (/\ last.route = "update_book" /\ last.resp.status = 200
     /\ last'.route = "get_book" /\ Working(last')
     /\ Addressed(last') = Some(last.resp.body.book.id))
    => last'.resp = [status |-> 200, body |-> [kind |-> "book", book |-> last.resp.body.book]]

\* C8: a successful update of an existing id answers 200 with a book of the
\* same id whose name and author are both those of the input, and a following
\* get of that id returns a book equal to the one update returned.
C8_UpdateThenGet == [][UpdateReplaces /\ GetAfterUpdate]_vars

\* A get addressed the id a successful update had just answered on, and
\* answered 200.
C8_Witness ==
    /\ last.route = "get_book"
    /\ last.after = "update_book"
    /\ last.resp.status = OK

\* ----------------------------------------------------------------------- C9

\* No two stored books share an id.
UniqueIds ==
    /\ \A r1, r2 \in table : r1.id = r2.id => r1 = r2
    /\ \A k \in DOMAIN db : db[k].id = k

\* An insert that reaches a working repository answers 200 with a book whose
\* id no stored book had, and the store gains that book and nothing else.
InsertAddsOne ==
    (last'.route = "insert_book" /\ Working(last')) =>
        /\ last'.resp.status = 200
        /\ last'.resp.body.kind = "book"
        /\ StoredUnder(last'.resp.body.book.id) = {}
        /\ Stored' = Stored \cup {last'.resp.body.book}
        /\ Cardinality(Stored') = Cardinality(Stored) + 1

\* C9: after any sequence of insert, update and delete requests every stored
\* book has a unique id; insert takes no id from the client, succeeds whenever
\* the backend works and adds exactly one book, under an id no stored book has.
C9_UniqueIds == [][UniqueIds /\ UniqueIds' /\ InsertAddsOne]_vars

\* An insert whose body named the id of a stored book and repeated the name
\* and author of a stored book was answered 200 with a book of another id.
C9_Witness ==
    /\ last.route = "insert_book"
    /\ last.resp.status = OK
    /\ last.json.id = Some(10)
    /\ last.resp.body.book.id # 10
    /\ StoredUnder(10) # {}
    /\ \E book \in Stored :
          /\ book.id # last.resp.body.book.id
          /\ book.name = last.json.name
          /\ book.author = last.json.author

\* ---------------------------------------------------------------------- C10

\* get and list leave the store as it is.
ReadsChangeNothing ==
    last'.route \in {"get_book", "list_books"} => UNCHANGED <<table, seq, db>>

\* An update or a delete leaves the books of every other id as they are.
OthersUntouched ==
    last'.route \in {"update_book", "delete_book"} =>
        LET id == Addressed(last')
        IN  {book \in Stored : Some(book.id) # id} = {book \in Stored' : Some(book.id) # id}

\* An insert leaves every stored book as it is.
InsertKeepsAll == last'.route = "insert_book" => Stored \subseteq Stored'

\* C10: a request changes no stored book other than the one whose id it
\* addresses: an update or a delete on id X leaves every book with another id
\* in the store and unchanged, and get and list change nothing in the store.
C10_Frame == [][ReadsChangeNothing /\ OthersUntouched /\ InsertKeepsAll]_vars

\* A delete removed the book of its id and a book of another id is stored.
C10_Witness ==
    /\ last.route = "delete_book"
    /\ last.resp.status = NO_CONTENT
    /\ \E book \in Stored : Some(book.id) # Addressed(last)

\* ---------------------------------------------------------------------- C11

\* A list that reaches a working repository over a store of at most a page
\* answers 200 with the books stored, each of them once.
ListReturnsStored ==
    (last'.route = "list_books" /\ Working(last') /\ Cardinality(Stored') <= 100) =>
        /\ last'.resp = [status |-> 200, body |-> [kind |-> "books", books |-> Stored']]
        /\ \A b1, b2 \in last'.resp.body.books : b1.id = b2.id => b1 = b2

\* A successful insert makes the store one book larger, a successful delete
\* one book smaller.
InsertGrowsDeleteShrinks ==
    /\ (last'.route = "insert_book" /\ last'.resp.status = 200) =>
           Cardinality(Stored') = Cardinality(Stored) + 1
    /\ (last'.route = "delete_book" /\ last'.resp.status = 204) =>
           Cardinality(Stored') = Cardinality(Stored) - 1

\* C11: when the store holds at most 100 books and the backend works, the
\* list route answers 200 with exactly the books currently stored, each once:
\* one more after each successful insert, one fewer after each successful
\* delete.
C11_ListIsStore == [][ListReturnsStored /\ InsertGrowsDeleteShrinks]_vars

\* A list on the table of two books, after an insert and a delete, was
\* answered 200 with the two books then stored.
C11_Witness ==
    /\ impl = "database"
    /\ last.route = "list_books"
    /\ last.resp.status = OK
    /\ seq = 11
    /\ Cardinality(table) = 2
    /\ last.resp.body.books = table

\* ---------------------------------------------------------------------- C13

\* A request invokes at most one repository operation.
AtMostOneCall == last'.calls \in {0, 1}

\* The backend failed during the one repository call of the request.
Failed(e) ==
    \/ e.fault # "none"
    \/ impl = "mock" /\ raise_errors /\ e.calls = 1 /\ Implemented(e)

\* A failure of the one attempt is answered 500, and the store is as it was:
\* nothing was attempted again and the error was not dropped.
FailureAnsweredAtOnce ==
    Failed(last') =>
        /\ last'.calls = 1
        /\ last'.resp.status = 500
        /\ last'.resp.body.kind = "text"
        /\ UNCHANGED <<table, seq, db>>

\* C13: no operation is retried: every request invokes at most one repository
\* operation, and a single backend failure on that attempt is answered 500 at
\* once, without a second attempt and without the error being suppressed.
C13_NoRetry == [][AtMostOneCall /\ FailureAnsweredAtOnce]_vars

\* An insert whose statement failed was answered 500 after one repository
\* call, and the table holds no new row.
C13_Witness ==
    /\ last.route = "insert_book"
    /\ last.fault = "statement"
    /\ last.calls = 1
    /\ last.resp.status = INTERNAL_SERVER_ERROR
    /\ table = TwoRows
    /\ seq = 10

\* ---------------------------------------------------------------------- C14

\* C14: for every path segment that parses as an id with no stored book, get,
\* update and delete answer 404 with the same body, "No book found with ID: "
\* followed by the id, also when the text of the segment is not the canonical
\* decimal form of the id (a leading "+" or leading zeros).
C14_SameNotFoundBody ==
    (TakesId(last) /\ last.resp.status = 404) =>
        last.resp.body =
            [kind |-> "text",
             text |-> <<"No book found with ID: ">> \o FormatI32(ParseI32(last.seg).val)]

\* ---------------------------------------------------------------------- C12

\* The task is inside its repository call, past pool.get().
InCall(task) == task.pc \in {"holding", "executed"}

\* Every task is idle or has answered.
AllCompleted == \A t \in Tasks : tasks[t].pc \in {"idle", "done"}

\* C12: with requests handled concurrently, each request holds at most one
\* pooled connection, holds it only inside its one repository call and has
\* released it when it completes, whether the call succeeded or failed; once
\* all requests have completed no connection is checked out of the pool.
C12_ConnectionHeldInCallOnly ==
    /\ \A t \in Tasks :
          /\ Cardinality(tasks[t].conns) <= 1
          /\ tasks[t].conns # {} => InCall(tasks[t])
          /\ tasks[t].pc = "done" => tasks[t].conns = {}
    /\ \A t, u \in Tasks : t # u => tasks[t].conns \cap tasks[u].conns = {}
    /\ idle = Connections \ UNION {tasks[t].conns : t \in Tasks}
    /\ AllCompleted => idle = Connections

\* Two requests overlapped, the statement of the first failed and it was
\* answered 500, the second was answered 200, and the pool has every
\* connection back.
C12_Witness ==
    /\ applied = <<2, 1>>
    /\ tasks[1].pc = "done" /\ tasks[1].fault = "statement"
    /\ tasks[1].resp.status = INTERNAL_SERVER_ERROR
    /\ tasks[2].pc = "done" /\ tasks[2].resp.status = OK
    /\ idle = Connections

\* ---------------------------------------------------------------------- C15

\* The statement of task t was an update that wrote the row of the id.
WroteTo(t, id) ==
    /\ tasks[t].route = "update_book"
    /\ Addressed(tasks[t]) = Some(id)
    /\ tasks[t].fault = "none"
    /\ tasks[t].result.tag = "Ok"
    /\ tasks[t].result.val.some

\* The task whose update the database applied last to the row of the id.
LastWrite(id) ==
    LET writes == {i \in DOMAIN applied : WroteTo(applied[i], id)}
    IN  IF writes = {} THEN None ELSE Some(applied[Max(writes)])

\* C15: when updates of the same existing id run concurrently with different
\* inputs, no update is partially applied: in every interleaving the stored
\* book has the name and the author of one and the same input, that of the
\* update the database applied last, and each 200 response carries exactly
\* the input of its own request.
C15_UpdateWhole ==
    /\ \A row \in table :
          LastWrite(row.id).some =>
             /\ row.name = tasks[LastWrite(row.id).val].json.name
             /\ row.author = tasks[LastWrite(row.id).val].json.author
    /\ \A t \in Tasks :
          (tasks[t].route = "update_book" /\ tasks[t].resp.status = 200) =>
             tasks[t].resp.body =
                [kind |-> "book",
                 book |-> [id |-> Addressed(tasks[t]).val,
                           name |-> tasks[t].json.name,
                           author |-> tasks[t].json.author]]

\* Two updates of book 1 with different inputs overlapped, the one that
\* arrived second was applied first, both were answered 200, and the table
\* holds the input of the one applied last.
C15_Witness ==
    /\ applied = <<2, 1>>
    /\ \A t \in {1, 2} :
          /\ tasks[t].route = "update_book"
          /\ tasks[t].pc = "done"
          /\ tasks[t].resp.status = OK
    /\ tasks[1].json # tasks[2].json
    /\ StoredUnder(1) = {tasks[1].resp.body.book}

\* ---------------------------------------------------------------------- C16

\* The deletes of the id whose statement the working database has executed.
DeletesExecuted(id) ==
    {t \in Tasks : /\ tasks[t].route = "delete_book"
                   /\ Addressed(tasks[t]) = Some(id)
                   /\ tasks[t].pc \in {"executed", "done"}
                   /\ tasks[t].fault = "none"}

\* Those of them that have been answered.
DeletesAnswered(id) == {t \in DeletesExecuted(id) : tasks[t].pc = "done"}

\* C16: when deletes of the same existing id run concurrently against a
\* working backend, in every interleaving exactly one of them answers 204 and
\* all the others 404; an update that runs concurrently with a delete of the
\* id answers 200 or 404, and the book is absent once the delete is through.
C16_OneDeleteWins ==
    \A id \in {row.id : row \in TwoRows} :
        LET won == {t \in DeletesAnswered(id) : tasks[t].resp.status = 204}
        IN  /\ Cardinality(won) <= 1
            /\ \A t \in DeletesAnswered(id) : tasks[t].resp.status \in {204, 404}
            /\ (DeletesExecuted(id) # {} /\ DeletesAnswered(id) = DeletesExecuted(id)) =>
                   Cardinality(won) = 1
            /\ DeletesExecuted(id) # {} => StoredUnder(id) = {}
            /\ \A t \in Tasks :
                  (/\ tasks[t].route = "update_book" /\ Addressed(tasks[t]) = Some(id)
                   /\ tasks[t].pc = "done" /\ tasks[t].fault = "none")
                  => tasks[t].resp.status \in {200, 404}

\* Two deletes of book 1 overlapped: the one that arrived second was executed
\* first and answered 204, the other answered 404, and the book is gone.
C16_Witness ==
    /\ applied = <<2, 1>>
    /\ \A t \in {1, 2} : tasks[t].route = "delete_book" /\ tasks[t].pc = "done"
    /\ tasks[2].resp.status = NO_CONTENT
    /\ tasks[1].resp.status = NOT_FOUND
    /\ StoredUnder(1) = {}

====
